---- MODULE Spec2Model ----
(***************************************************************************)
(* A model of fs/sdcardfs/super.c: the super-block operations of sdcardfs. *)
(*                                                                         *)
(*   - sdcardfs_propagate_unlink / sdcardfs_propagate_rename replay an     *)
(*     unlink / rename under up to four projection roots.  Each function   *)
(*     is modelled statement group by statement group (pc), so that every  *)
(*     exit path and every read of sbi->options.type is a step.            *)
(*   - sdcardfs_statfs is one action: the whole handler.                    *)
(*                                                                         *)
(* Encoding of C values:                                                   *)
(*   - a pointer is <<>> (NULL) or <<x>> (a pointer to x);                 *)
(*   - a C string is a TLA+ string, "%s%s" is \o;                          *)
(*   - statuses are integers, 0 or a negative errno;                       *)
(*   - f_type values are kept symbolic (the magic numbers do not matter);  *)
(*   - u64 block counts are integers congruent to the C value modulo 2^64  *)
(*     (a negative number stands for a wrapped value).                     *)
(***************************************************************************)
EXTENDS Integers, Sequences, FiniteSets, TLC

VARIABLES
    options,     \* sbi->options: type, label, reserved_mb
    current,     \* the calling task: fsuid, fsgid, addr_limit
    pc,          \* position of the propagation call in flight
    kind,        \* "unlink" | "rename": which propagate function runs
    names,       \* its arguments: pathname (unlink), oldname/newname (rename)
    saved_cred,  \* local: const struct cred *saved_cred
    old_fs,      \* local: mm_segment_t old_fs
    bufs,        \* locals: propagate_path, propagate_old_path, propagete_new_path
    heap,        \* kmalloc'ed buffers that are live
    ret,         \* local: long ret; at pc = "done" the returned status
    ops,         \* physical operations issued by the call, in order
    res,         \* resource events of the call, in order
    lower,       \* what vfs_statfs() left: [err, buf]
    buf,         \* struct kstatfs *buf after sdcardfs_statfs
    statfs_ret,  \* return value of sdcardfs_statfs
    statfs_pc,   \* "idle" | "returned"
    mnt,         \* the super block: s_fs_info, the sdcardfs_sb_info fields the
                 \* unmount path uses, the lower super block, the calls made
    inodes,      \* the inode cache objects and the lower inodes' counts
    remount      \* the sdcardfs_remount_fs call: pc, *flags, err

propVars == <<current, pc, kind, names, saved_cred, old_fs, bufs, heap, ret, ops, res>>
statVars == <<lower, buf, statfs_ret, statfs_pc>>
otherVars == <<mnt, inodes, remount>>
vars == <<options, current, pc, kind, names, saved_cred, old_fs, bufs, heap, ret,
          ops, res, lower, buf, statfs_ret, statfs_pc, mnt, inodes, remount>>

NULL == <<>>
Ptr(x) == <<x>>
Deref(p) == p[1]
Range(seq) == {seq[i] : i \in 1..Len(seq)}

(***************************************************************************)
(* Program constants.                                                      *)
(***************************************************************************)
ENOMEM == 12
EINVAL == 22
PATH_MAX == 4096

(***************************************************************************)
(* Input domains.                                                          *)
(***************************************************************************)
\* type_t: the four named values and one value that is none of them.
Types == {"TYPE_NONE", "TYPE_DEFAULT", "TYPE_READ", "TYPE_WRITE", "TYPE_FULL"}
Labels == {"abc", ""}
\* relative paths handed to the callbacks (with and without a leading slash)
Pathnames == {"foo.txt", "/a/old"}
RenamePairs == {<<"a/old", "a/new">>, <<"/x", "/y">>}
\* fsuid/fsgid of the calling task
CallerIds == {[fsuid |-> 1023, fsgid |-> 1023], [fsuid |-> 0, fsgid |-> 0]}
\* statuses of do_unlinkat / sys_renameat2: success, -ENOENT, -EACCES
SysStatus == {0, -2, -13}
\* options.reserved_mb (unsigned int)
ReservedMb == {0, 1, 100, 4095, 4096, 4097, 5000}

\* a faulty variant: a "/" is put between the label and the name
snprintf_Separator(size, prefix, label, name) ==
    LET s == prefix \o label \o "/" \o name
    IN  IF Len(s) < size THEN s ELSE SubSeq(s, 1, size - 1)

(***************************************************************************)
(* snprintf(buf, PATH_MAX, "<prefix>%s%s", label, name): the formatted     *)
(* string, cut to PATH_MAX - 1 characters.                                 *)
(***************************************************************************)
snprintf(size, prefix, label, name) ==
    LET s == prefix \o label \o name
    IN  IF Len(s) < size THEN s ELSE SubSeq(s, 1, size - 1)

(***************************************************************************)
(* The credential service of sdcardfs.h, as the propagate functions use    *)
(* it: override_fsids(uid, gid) installs the ids and returns the previous  *)
(* credentials; revert_fsids(old) puts them back.                          *)
(***************************************************************************)
override_fsids(cur, uid, gid) == [cur EXCEPT !.fsuid = uid, !.fsgid = gid]
revert_fsids(cur, old) == [cur EXCEPT !.fsuid = old.fsuid, !.fsgid = old.fsgid]

NoBufs == [propagate_path |-> NULL, propagate_old_path |-> NULL,
           propagete_new_path |-> NULL]

\* one physical operation, as issued: the call, its paths, its last
\* argument (flags), the task's identity at the time, and its status
UnlinkOp(path, status, cur) ==
    [call |-> "do_unlinkat", path |-> path, newpath |-> "", flags |-> "false",
     fsuid |-> cur.fsuid, fsgid |-> cur.fsgid, ds |-> cur.addr_limit,
     status |-> status]
\* a faulty variant: the rename is issued with no flag
RenameOp_NoFlag(old, new, status, cur) ==
    [call |-> "sys_renameat2", path |-> old, newpath |-> new,
     flags |-> "0",
     fsuid |-> cur.fsuid, fsgid |-> cur.fsgid, ds |-> cur.addr_limit,
     status |-> status]

RenameOp(old, new, status, cur) ==
    [call |-> "sys_renameat2", path |-> old, newpath |-> new,
     flags |-> "RENAME_NOPROPAGATE",
     fsuid |-> cur.fsuid, fsgid |-> cur.fsgid, ds |-> cur.addr_limit,
     status |-> status]

(***************************************************************************)
(* The mounted super block.  s_fs_info points to the sdcardfs_sb_info      *)
(* (spd); spd holds lower_sb, whose s_active the mount has incremented,    *)
(* and optionally the obb path and the package list handle.  calls lists   *)
(* the put_super / umount_begin calls made, each with what it did.         *)
(***************************************************************************)
MountStates ==
    [s_fs_info : {Ptr("spd")},
     lower_sb : {Ptr("lower_sb")},
     obbpath_s : {NULL, Ptr("obb")},
     pkgl_id : {NULL, Ptr("pkgl")},
     lower_umount_begin : BOOLEAN,
     s_active : {2},
     s_active_mounted : {2},
     calls : {<<>>}]

(***************************************************************************)
(* The inode cache: a pool of sdcardfs_inode_info objects.  An object is   *)
(* "free" (in the pool), "new" (allocated, no lower inode set), "live"     *)
(* (lower inode set) or "evicted".  lower_inode is the stored pointer;     *)
(* held and puts record the lower reference the object owns and the iputs  *)
(* of it; evict records what the last evict did, in order.                 *)
(***************************************************************************)
MaxInodes == 2
Objects == 1..MaxInodes
LowerInodes == {"l1", "l2"}
FreeObject == [st |-> "free", lower_inode |-> NULL, held |-> NULL, puts |-> 0,
               stray |-> 0, evict |-> <<>>]

(***************************************************************************)
(* Initial state: a mounted file system, no call in flight.                *)
(***************************************************************************)
ZeroBuf == [f_type |-> "NONE", f_bsize |-> 0, f_blocks |-> 0, f_bfree |-> 0,
            f_bavail |-> 0]

Init ==
    /\ options \in [type : Types, label : Labels, reserved_mb : ReservedMb]
    /\ \E id \in CallerIds :
         current = [fsuid |-> id.fsuid, fsgid |-> id.fsgid, addr_limit |-> "USER_DS"]
    /\ pc = "idle"
    /\ kind = "none"
    /\ names = [pathname |-> "", oldname |-> "", newname |-> ""]
    /\ saved_cred = NULL
    /\ old_fs = "USER_DS"
    /\ bufs = NoBufs
    /\ heap = {}
    /\ ret = 0
    /\ ops = <<>>
    /\ res = <<>>
    /\ lower = [err |-> 0, buf |-> ZeroBuf]
    /\ buf = ZeroBuf
    /\ statfs_ret = 0
    /\ statfs_pc = "idle"
    /\ mnt \in MountStates
    /\ inodes = [objs |-> [o \in Objects |-> FreeObject],
                 i_count |-> [l \in LowerInodes |-> 1],
                 last_alloc |-> NULL]
    /\ remount = [pc |-> "idle", flags |-> {}, data |-> "", err |-> 0]

(***************************************************************************)
(* sdcardfs_propagate_unlink                                               *)
(***************************************************************************)
propIdle == pc \in {"idle", "done"}

propFrame == <<options, lower, buf, statfs_ret, statfs_pc, mnt, inodes, remount>>

\* lines 184-195: locals, sbi, saved_cred = override_fsids(0, 0)
UnlinkEnter ==
    /\ propIdle
    /\ \E p \in Pathnames :
         names' = [pathname |-> p, oldname |-> "", newname |-> ""]
    /\ kind' = "unlink"
    /\ bufs' = NoBufs
    /\ ops' = <<>>
    /\ \E ok \in BOOLEAN :
         IF ok
         THEN /\ saved_cred' = Ptr([fsuid |-> current.fsuid, fsgid |-> current.fsgid])
              /\ current' = override_fsids(current, 0, 0)
              /\ res' = <<"override_fsids">>
              /\ ret' = 0
              /\ pc' = "kmalloc"
         ELSE /\ saved_cred' = NULL
              /\ current' = current
              /\ res' = <<>>
              /\ ret' = -ENOMEM
              /\ pc' = "done"
    /\ UNCHANGED <<old_fs, heap>>
    /\ UNCHANGED propFrame

\* a faulty variant: the out-of-memory exit forgets revert_fsids
UnlinkKmalloc_NoRevert ==
    /\ pc = "kmalloc" /\ kind = "unlink"
    /\ \E ok \in BOOLEAN :
         IF ok
         THEN /\ bufs' = [bufs EXCEPT !.propagate_path = Ptr("")]
              /\ heap' = heap \cup {"propagate_path"}
              /\ res' = Append(res, "kmalloc:propagate_path")
              /\ old_fs' = current.addr_limit
              /\ current' = [current EXCEPT !.addr_limit = "KERNEL_DS"]
              /\ ret' = ret
              /\ pc' = "default"
         ELSE /\ UNCHANGED <<bufs, heap, old_fs, current, res>>
              /\ ret' = -ENOMEM
              /\ pc' = "done"
    /\ UNCHANGED <<kind, names, saved_cred, ops>>
    /\ UNCHANGED propFrame

\* lines 196-203: propagate_path = kmalloc(PATH_MAX); old_fs = get_fs();
\* set_fs(KERNEL_DS)
UnlinkKmalloc ==
    /\ pc = "kmalloc" /\ kind = "unlink"
    /\ \E ok \in BOOLEAN :
         IF ok
         THEN /\ bufs' = [bufs EXCEPT !.propagate_path = Ptr("")]
              /\ heap' = heap \cup {"propagate_path"}
              /\ res' = Append(res, "kmalloc:propagate_path")
              /\ old_fs' = current.addr_limit
              /\ current' = [current EXCEPT !.addr_limit = "KERNEL_DS"]
              /\ ret' = ret
              /\ pc' = "default"
         ELSE /\ UNCHANGED <<bufs, heap, old_fs>>
              /\ current' = revert_fsids(current, Deref(saved_cred))
              /\ res' = Append(res, "revert_fsids")
              /\ ret' = -ENOMEM
              /\ pc' = "done"
    /\ UNCHANGED <<kind, names, saved_cred, ops>>
    /\ UNCHANGED propFrame

\* faulty variants: the read test names the wrong type; the storage test is gone
UnlinkCondRead_WrongType(type) == type # "TYPE_NONE" /\ type # "TYPE_WRITE"
UnlinkCondStorage_NoTest(type) == TRUE

\* the activation conditions, lines 204, 210, 216, 222
UnlinkCondDefault(type) == type # "TYPE_NONE" /\ type # "TYPE_DEFAULT"
UnlinkCondRead(type) == type # "TYPE_NONE" /\ type # "TYPE_READ"
UnlinkCondWrite(type) == type # "TYPE_NONE" /\ type # "TYPE_WRITE"
UnlinkCondStorage(type) == type # "TYPE_NONE"

\* a faulty variant: the first failure is kept as the status
DoUnlink_KeepFirstError(prefix) ==
    \E st \in SysStatus :
      LET path == snprintf(PATH_MAX, prefix, options.label, names.pathname)
      IN  /\ bufs' = [bufs EXCEPT !.propagate_path = Ptr(path)]
          /\ ops' = Append(ops, UnlinkOp(path, st, current))
          /\ ret' = IF ret # 0 THEN ret ELSE st

\* the body of each if: snprintf(propagate_path, ...);
\* ret = do_unlinkat(AT_FDCWD, propagate_path, false)
DoUnlink(prefix) ==
    \E st \in SysStatus :
      LET path == snprintf(PATH_MAX, prefix, options.label, names.pathname)
      IN  /\ bufs' = [bufs EXCEPT !.propagate_path = Ptr(path)]
          /\ ops' = Append(ops, UnlinkOp(path, st, current))
          /\ ret' = st

UnlinkSkip == UNCHANGED <<bufs, ops, ret>>

unlinkStepFrame == <<current, kind, names, saved_cred, old_fs, heap, res>>

\* lines 204-208
UnlinkDefault ==
    /\ pc = "default" /\ kind = "unlink"
    /\ IF UnlinkCondDefault(options.type)
       THEN DoUnlink("/mnt/runtime/default/") ELSE UnlinkSkip
    /\ pc' = "read"
    /\ UNCHANGED unlinkStepFrame
    /\ UNCHANGED propFrame

\* a faulty variant: a failed delete jumps to the exit
UnlinkRead_GotoOut ==
    /\ pc = "read" /\ kind = "unlink"
    /\ IF UnlinkCondRead(options.type)
       THEN DoUnlink("/mnt/runtime/read/") ELSE UnlinkSkip
    /\ pc' = IF ret' # 0 THEN "exit" ELSE "write"
    /\ UNCHANGED unlinkStepFrame
    /\ UNCHANGED propFrame

\* lines 210-214
UnlinkRead ==
    /\ pc = "read" /\ kind = "unlink"
    /\ IF UnlinkCondRead(options.type)
       THEN DoUnlink("/mnt/runtime/read/") ELSE UnlinkSkip
    /\ pc' = "write"
    /\ UNCHANGED unlinkStepFrame
    /\ UNCHANGED propFrame

\* lines 216-220
UnlinkWrite ==
    /\ pc = "write" /\ kind = "unlink"
    /\ IF UnlinkCondWrite(options.type)
       THEN DoUnlink("/mnt/runtime/write/") ELSE UnlinkSkip
    /\ pc' = "storage"
    /\ UNCHANGED unlinkStepFrame
    /\ UNCHANGED propFrame

\* lines 222-226
UnlinkStorage ==
    /\ pc = "storage" /\ kind = "unlink"
    /\ IF UnlinkCondStorage(options.type)
       THEN DoUnlink("/storage/") ELSE UnlinkSkip
    /\ pc' = "exit"
    /\ UNCHANGED unlinkStepFrame
    /\ UNCHANGED propFrame

\* lines 227-230: set_fs(old_fs); revert_fsids(saved_cred);
\* kfree(propagate_path); return ret
UnlinkExit ==
    /\ pc = "exit" /\ kind = "unlink"
    /\ current' = [revert_fsids(current, Deref(saved_cred))
                     EXCEPT !.addr_limit = old_fs]
    /\ heap' = heap \ {"propagate_path"}
    /\ res' = res \o <<"revert_fsids", "kfree:propagate_path">>
    /\ pc' = "done"
    /\ UNCHANGED <<kind, names, saved_cred, old_fs, bufs, ret, ops>>
    /\ UNCHANGED propFrame

(***************************************************************************)
(* sdcardfs_propagate_rename                                               *)
(***************************************************************************)
\* lines 233-245: locals, sbi, saved_cred = override_fsids(0, 0)
RenameEnter ==
    /\ propIdle
    /\ \E p \in RenamePairs :
         names' = [pathname |-> "", oldname |-> p[1], newname |-> p[2]]
    /\ kind' = "rename"
    /\ bufs' = NoBufs
    /\ ops' = <<>>
    /\ \E ok \in BOOLEAN :
         IF ok
         THEN /\ saved_cred' = Ptr([fsuid |-> current.fsuid, fsgid |-> current.fsgid])
              /\ current' = override_fsids(current, 0, 0)
              /\ res' = <<"override_fsids">>
              /\ ret' = 0
              /\ pc' = "kmalloc"
         ELSE /\ saved_cred' = NULL
              /\ current' = current
              /\ res' = <<>>
              /\ ret' = -ENOMEM
              /\ pc' = "done"
    /\ UNCHANGED <<old_fs, heap>>
    /\ UNCHANGED propFrame

\* lines 246-251: propagate_old_path = kmalloc(PATH_MAX)
RenameKmallocOld ==
    /\ pc = "kmalloc" /\ kind = "rename"
    /\ \E ok \in BOOLEAN :
         IF ok
         THEN /\ bufs' = [bufs EXCEPT !.propagate_old_path = Ptr("")]
              /\ heap' = heap \cup {"propagate_old_path"}
              /\ res' = Append(res, "kmalloc:propagate_old_path")
              /\ current' = current
              /\ ret' = ret
              /\ pc' = "kmalloc_new"
         ELSE /\ UNCHANGED <<bufs, heap>>
              /\ current' = revert_fsids(current, Deref(saved_cred))
              /\ res' = Append(res, "revert_fsids")
              /\ ret' = -ENOMEM
              /\ pc' = "done"
    /\ UNCHANGED <<kind, names, saved_cred, old_fs, ops>>
    /\ UNCHANGED propFrame

\* lines 252-261: propagete_new_path = kmalloc(PATH_MAX); old_fs = get_fs();
\* set_fs(KERNEL_DS)
RenameKmallocNew ==
    /\ pc = "kmalloc_new" /\ kind = "rename"
    /\ \E ok \in BOOLEAN :
         IF ok
         THEN /\ bufs' = [bufs EXCEPT !.propagete_new_path = Ptr("")]
              /\ heap' = heap \cup {"propagete_new_path"}
              /\ res' = Append(res, "kmalloc:propagete_new_path")
              /\ old_fs' = current.addr_limit
              /\ current' = [current EXCEPT !.addr_limit = "KERNEL_DS"]
              /\ ret' = ret
              /\ pc' = "default"
         ELSE /\ UNCHANGED <<bufs, old_fs>>
              /\ current' = revert_fsids(current, Deref(saved_cred))
              /\ heap' = heap \ {"propagate_old_path"}
              /\ res' = res \o <<"revert_fsids", "kfree:propagate_old_path">>
              /\ ret' = -ENOMEM
              /\ pc' = "done"
    /\ UNCHANGED <<kind, names, saved_cred, ops>>
    /\ UNCHANGED propFrame

\* a faulty variant: the write test forgets TYPE_WRITE
RenameCondWrite_NoWrite(type) == type # "TYPE_NONE"

\* the activation conditions, lines 262, 270, 278, 286
RenameCondDefault(type) == type # "TYPE_NONE" /\ type # "TYPE_DEFAULT"
RenameCondRead(type) == type # "TYPE_NONE" /\ type # "TYPE_READ"
RenameCondWrite(type) == type # "TYPE_NONE" /\ type # "TYPE_WRITE"
RenameCondStorage(type) == type # "TYPE_NONE"

\* the body of each if: the two snprintf calls;
\* ret = sys_renameat2(AT_FDCWD, old, AT_FDCWD, new, RENAME_NOPROPAGATE)
DoRename(prefix) ==
    \E st \in SysStatus :
      LET old == snprintf(PATH_MAX, prefix, options.label, names.oldname)
          new == snprintf(PATH_MAX, prefix, options.label, names.newname)
      IN  /\ bufs' = [bufs EXCEPT !.propagate_old_path = Ptr(old),
                                  !.propagete_new_path = Ptr(new)]
          /\ ops' = Append(ops, RenameOp(old, new, st, current))
          /\ ret' = st

RenameSkip == UNCHANGED <<bufs, ops, ret>>

renameStepFrame == <<current, kind, names, saved_cred, old_fs, heap, res>>

\* lines 262-268
RenameDefault ==
    /\ pc = "default" /\ kind = "rename"
    /\ IF RenameCondDefault(options.type)
       THEN DoRename("/mnt/runtime/default/") ELSE RenameSkip
    /\ pc' = "read"
    /\ UNCHANGED renameStepFrame
    /\ UNCHANGED propFrame

\* lines 270-276
RenameRead ==
    /\ pc = "read" /\ kind = "rename"
    /\ IF RenameCondRead(options.type)
       THEN DoRename("/mnt/runtime/read/") ELSE RenameSkip
    /\ pc' = "write"
    /\ UNCHANGED renameStepFrame
    /\ UNCHANGED propFrame

\* lines 278-284
RenameWrite ==
    /\ pc = "write" /\ kind = "rename"
    /\ IF RenameCondWrite(options.type)
       THEN DoRename("/mnt/runtime/write/") ELSE RenameSkip
    /\ pc' = "storage"
    /\ UNCHANGED renameStepFrame
    /\ UNCHANGED propFrame

\* lines 286-292
RenameStorage ==
    /\ pc = "storage" /\ kind = "rename"
    /\ IF RenameCondStorage(options.type)
       THEN DoRename("/storage/") ELSE RenameSkip
    /\ pc' = "exit"
    /\ UNCHANGED renameStepFrame
    /\ UNCHANGED propFrame

\* a faulty variant: the exit forgets revert_fsids
RenameExit_NoRevert ==
    /\ pc = "exit" /\ kind = "rename"
    /\ current' = [current EXCEPT !.addr_limit = old_fs]
    /\ heap' = heap \ {"propagate_old_path", "propagete_new_path"}
    /\ res' = res \o <<"kfree:propagate_old_path", "kfree:propagete_new_path">>
    /\ pc' = "done"
    /\ UNCHANGED <<kind, names, saved_cred, old_fs, bufs, ret, ops>>
    /\ UNCHANGED propFrame

\* lines 293-297: set_fs(old_fs); revert_fsids(saved_cred);
\* kfree(propagate_old_path); kfree(propagete_new_path); return ret
RenameExit ==
    /\ pc = "exit" /\ kind = "rename"
    /\ current' = [revert_fsids(current, Deref(saved_cred))
                     EXCEPT !.addr_limit = old_fs]
    /\ heap' = heap \ {"propagate_old_path", "propagete_new_path"}
    /\ res' = res \o <<"revert_fsids", "kfree:propagate_old_path",
                       "kfree:propagete_new_path">>
    /\ pc' = "done"
    /\ UNCHANGED <<kind, names, saved_cred, old_fs, bufs, ret, ops>>
    /\ UNCHANGED propFrame

PropagateNext ==
    \/ UnlinkEnter
    \/ UnlinkKmalloc
    \/ UnlinkDefault
    \/ UnlinkRead
    \/ UnlinkWrite
    \/ UnlinkStorage
    \/ UnlinkExit
    \/ RenameEnter
    \/ RenameKmallocOld
    \/ RenameKmallocNew
    \/ RenameDefault
    \/ RenameRead
    \/ RenameWrite
    \/ RenameStorage
    \/ RenameExit

PropagateSpec == Init /\ [][PropagateNext]_vars

(***************************************************************************)
(* sdcardfs_statfs                                                         *)
(***************************************************************************)
\* the largest block count the backing file system reports
MaxBlocks == 3000000

\* what vfs_statfs() may leave behind: its status and the buffer
LowerErr == {0, -5, -38}
LowerBufs ==
    [f_type : {"EXT4_SUPER_MAGIC", "MSDOS_SUPER_MAGIC"},
     f_bsize : {0, 512, 4096},
     f_blocks : {0, MaxBlocks},
     f_bfree : {0, MaxBlocks},
     f_bavail : {0, 256, 257, 2048, 1000000, MaxBlocks}]

\* floor(a * 2^n / b) for a >= 0, b > 0, by long division (no intermediate
\* value exceeds 2 * b)
RECURSIVE ShlDivStep(_, _, _, _)
ShlDivStep(q, r, b, n) ==
    IF n = 0 THEN q
    ELSE ShlDivStep(2 * q + ((2 * r) \div b), (2 * r) % b, b, n - 1)
ShlDiv(a, b, n) == ShlDivStep(a \div b, a % b, b, n)

\* line 75: min_blocks = (reserved_mb * 1024 * 1024) / f_bsize.  reserved_mb
\* is an unsigned int, so the product is taken modulo 2^32:
\* (reserved_mb * 2^20) mod 2^32 = (reserved_mb mod 2^12) * 2^20.  The
\* quotient fits the u32 min_blocks.
MinBlocks(reserved_mb, f_bsize) == ShlDiv(reserved_mb % 4096, f_bsize, 20)

\* a faulty variant: the pass-through branch forgets the type tag
sdcardfs_statfs_NoMagic(reserved_mb, err, b) ==
    IF reserved_mb # 0
    THEN IF b.f_bsize = 0
         THEN [ret |-> -EINVAL, buf |-> b]
         ELSE LET min_blocks == MinBlocks(reserved_mb, b.f_bsize)
                  bavail == IF b.f_bavail > min_blocks
                            THEN b.f_bavail - min_blocks ELSE 0
              IN  [ret |-> err,
                   buf |-> [b EXCEPT !.f_blocks = @ - min_blocks,
                                     !.f_bavail = bavail,
                                     !.f_bfree = bavail,
                                     !.f_type = "SDCARDFS_SUPER_MAGIC"]]
    ELSE [ret |-> err, buf |-> b]

\* a faulty variant: a zero block size is reported by the status the function
\* returns at its end, which is err
sdcardfs_statfs_ErrOnZeroBsize(reserved_mb, err, b) ==
    IF reserved_mb # 0
    THEN IF b.f_bsize = 0
         THEN [ret |-> err, buf |-> [b EXCEPT !.f_type = "SDCARDFS_SUPER_MAGIC"]]
         ELSE LET min_blocks == MinBlocks(reserved_mb, b.f_bsize)
                  bavail == IF b.f_bavail > min_blocks
                            THEN b.f_bavail - min_blocks ELSE 0
              IN  [ret |-> err,
                   buf |-> [b EXCEPT !.f_blocks = @ - min_blocks,
                                     !.f_bavail = bavail,
                                     !.f_bfree = bavail,
                                     !.f_type = "SDCARDFS_SUPER_MAGIC"]]
    ELSE [ret |-> err, buf |-> [b EXCEPT !.f_type = "SDCARDFS_SUPER_MAGIC"]]

\* lines 68-90, given what vfs_statfs() left in err and *buf:
\* the returned status and the final *buf
sdcardfs_statfs(reserved_mb, err, b) ==
    IF reserved_mb # 0
    THEN IF b.f_bsize = 0
         THEN [ret |-> -EINVAL, buf |-> b]
         ELSE LET min_blocks == MinBlocks(reserved_mb, b.f_bsize)
                  bavail == IF b.f_bavail > min_blocks
                            THEN b.f_bavail - min_blocks ELSE 0
              IN  [ret |-> err,
                   buf |-> [b EXCEPT !.f_blocks = @ - min_blocks,
                                     !.f_bavail = bavail,
                                     !.f_bfree = bavail,
                                     !.f_type = "SDCARDFS_SUPER_MAGIC"]]
    ELSE [ret |-> err, buf |-> [b EXCEPT !.f_type = "SDCARDFS_SUPER_MAGIC"]]

\* lines 57-91: the handler
Statfs ==
    /\ statfs_pc = "idle"
    /\ \E e \in LowerErr, b \in LowerBufs :
         LET r == sdcardfs_statfs(options.reserved_mb, e, b)
         IN  /\ lower' = [err |-> e, buf |-> b]
             /\ buf' = r.buf
             /\ statfs_ret' = r.ret
    /\ statfs_pc' = "returned"
    /\ UNCHANGED options
    /\ UNCHANGED propVars
    /\ UNCHANGED otherVars

\* the caller has consumed the result; its struct kstatfs is gone
StatfsReturn ==
    /\ statfs_pc = "returned"
    /\ statfs_pc' = "idle"
    /\ lower' = [err |-> 0, buf |-> ZeroBuf]
    /\ buf' = ZeroBuf
    /\ statfs_ret' = 0
    /\ UNCHANGED options
    /\ UNCHANGED propVars
    /\ UNCHANGED otherVars

StatfsNext == Statfs \/ StatfsReturn

StatfsSpec == Init /\ [][StatfsNext]_vars

(***************************************************************************)
(* sdcardfs_put_super and sdcardfs_umount_begin                            *)
(***************************************************************************)
MaxPutSuper == 2
MaxUmountBegin == 2

CallsOf(name) == SelectSeq(mnt.calls, LAMBDA c : c.call = name)

lifeFrame == <<options, current, pc, kind, names, saved_cred, old_fs, bufs, heap,
               ret, ops, res, lower, buf, statfs_ret, statfs_pc, inodes, remount>>

\* a faulty variant: sb->s_fs_info is not cleared
PutSuper_NoClear ==
    /\ Len(CallsOf("put_super")) < MaxPutSuper
    /\ IF mnt.s_fs_info = NULL
       THEN mnt' = [mnt EXCEPT !.calls = Append(@, [call |-> "put_super",
                                                    did |-> <<>>])]
       ELSE LET obb == IF mnt.obbpath_s # NULL
                       THEN <<"kfree:obbpath_s", "path_put:obbpath">> ELSE <<>>
                did == obb \o <<"kfree:label", "set_lower_super:NULL",
                                "atomic_dec:s_active", "kfree:spd">>
            IN  mnt' = [mnt EXCEPT !.lower_sb = NULL,
                                   !.s_active = @ - 1,
                                   !.calls = Append(@, [call |-> "put_super",
                                                        did |-> did])]
    /\ UNCHANGED lifeFrame

\* lines 31-55
PutSuper ==
    /\ Len(CallsOf("put_super")) < MaxPutSuper
    /\ IF mnt.s_fs_info = NULL
       THEN mnt' = [mnt EXCEPT !.calls = Append(@, [call |-> "put_super",
                                                    did |-> <<>>])]
       ELSE LET obb == IF mnt.obbpath_s # NULL
                       THEN <<"kfree:obbpath_s", "path_put:obbpath">> ELSE <<>>
                did == obb \o <<"kfree:label", "set_lower_super:NULL",
                                "atomic_dec:s_active", "kfree:spd",
                                "s_fs_info:NULL">>
            IN  mnt' = [mnt EXCEPT !.lower_sb = NULL,
                                   !.s_active = @ - 1,
                                   !.s_fs_info = NULL,
                                   !.calls = Append(@, [call |-> "put_super",
                                                        did |-> did])]
    /\ UNCHANGED lifeFrame

\* a faulty variant: the package list is destroyed first
UmountBegin_DestroyFirst ==
    /\ mnt.s_fs_info # NULL
    /\ Len(CallsOf("umount_begin")) < MaxUmountBegin
    /\ LET fwd == IF mnt.lower_sb # NULL /\ mnt.lower_umount_begin
                  THEN <<"lower_sb:umount_begin">> ELSE <<>>
           destroy == IF mnt.pkgl_id # NULL
                      THEN <<"packagelist_destroy">> ELSE <<>>
       IN  mnt' = [mnt EXCEPT !.calls = Append(@, [call |-> "umount_begin",
                                                   did |-> destroy \o fwd])]
    /\ UNCHANGED lifeFrame

\* lines 307-325.  The VFS calls umount_begin on a super block that is still
\* mounted (line 313 reads through sb->s_fs_info unconditionally).
UmountBegin ==
    /\ mnt.s_fs_info # NULL
    /\ Len(CallsOf("umount_begin")) < MaxUmountBegin
    /\ LET fwd == IF mnt.lower_sb # NULL /\ mnt.lower_umount_begin
                  THEN <<"lower_sb:umount_begin">> ELSE <<>>
           destroy == IF mnt.pkgl_id # NULL
                      THEN <<"packagelist_destroy">> ELSE <<>>
       IN  mnt' = [mnt EXCEPT !.calls = Append(@, [call |-> "umount_begin",
                                                   did |-> fwd \o destroy])]
    /\ UNCHANGED lifeFrame

LifeNext == PutSuper \/ UmountBegin

LifeSpec == Init /\ [][LifeNext]_vars

(***************************************************************************)
(* sdcardfs_remount_fs.  *flags is the set of MS_ bits that are set, so    *)
(* `*flags & ~mask` is set difference.                                     *)
(***************************************************************************)
MsFlags == {"MS_RDONLY", "MS_MANDLOCK", "MS_SILENT", "MS_NOSUID", "MS_NOATIME"}
\* the mount options string handed to remount
RemountData == {"", "reserved_mb=50"}

\* line 106: the bits of *flags outside MS_RDONLY | MS_MANDLOCK | MS_SILENT
UnsupportedFlags(flags) == flags \ {"MS_RDONLY", "MS_MANDLOCK", "MS_SILENT"}

remountFrame == <<current, pc, kind, names, saved_cred, old_fs, bufs, heap,
                  ret, ops, res, lower, buf, statfs_ret, statfs_pc, mnt, inodes>>

\* a faulty variant: the options string is applied to the mount options
RemountFs_Reparse ==
    /\ remount.pc = "idle"
    /\ \E flags \in SUBSET MsFlags, data \in RemountData :
         /\ remount' = [pc |-> "returned", flags |-> flags, data |-> data,
                        err |-> IF UnsupportedFlags(flags) # {}
                                THEN -EINVAL ELSE 0]
         /\ options' = IF data = "" THEN options
                       ELSE [options EXCEPT !.reserved_mb = 50]
    /\ UNCHANGED remountFrame

\* lines 97-113
RemountFs ==
    /\ remount.pc = "idle"
    /\ \E flags \in SUBSET MsFlags, data \in RemountData :
         remount' = [pc |-> "returned", flags |-> flags, data |-> data,
                     err |-> IF UnsupportedFlags(flags) # {}
                             THEN -EINVAL ELSE 0]
    /\ UNCHANGED options
    /\ UNCHANGED remountFrame

\* the caller has consumed the status
RemountReturn ==
    /\ remount.pc = "returned"
    /\ remount' = [pc |-> "idle", flags |-> {}, data |-> "", err |-> 0]
    /\ UNCHANGED options
    /\ UNCHANGED remountFrame

RemountNext == RemountFs \/ RemountReturn

RemountSpec == Init /\ [][RemountNext]_vars

(***************************************************************************)
(* sdcardfs_alloc_inode, sdcardfs_evict_inode, sdcardfs_destroy_inode,     *)
(* and the two things their callers do: set the lower inode of a new       *)
(* object, and call evict before destroy.                                  *)
(***************************************************************************)
inodeFrame == <<options, current, pc, kind, names, saved_cred, old_fs, bufs, heap,
                ret, ops, res, lower, buf, statfs_ret, statfs_pc, mnt, remount>>

\* lines 144-148: the object kmem_cache_alloc returned, whose memory held
\* `stale`, after the memset of everything up to vfs_inode
InitInode(stale) ==
    [st |-> "new", lower_inode |-> NULL, held |-> NULL, puts |-> 0,
     stray |-> 0, evict |-> <<>>]

\* lines 136-149: kmem_cache_alloc fails (or the pool is exhausted) and the
\* function returns NULL, or it returns an initialised object
AllocInode ==
    /\ \/ inodes' = [inodes EXCEPT !.last_alloc = NULL]
       \/ \E o \in Objects :
            /\ inodes.objs[o].st = "free"
            /\ inodes' = [inodes EXCEPT
                            !.objs[o] = InitInode(inodes.objs[o].lower_inode),
                            !.last_alloc = Ptr(o)]
    /\ UNCHANGED options
    /\ UNCHANGED inodeFrame

\* the creator of the inode took a reference to the lower inode l and
\* stores it in the new object
SetLowerInode ==
    /\ \E o \in Objects, l \in LowerInodes :
         /\ inodes.objs[o].st = "new"
         /\ inodes' = [inodes EXCEPT
                         !.i_count[l] = @ + 1,
                         !.objs[o].lower_inode = Ptr(l),
                         !.objs[o].held = Ptr(l),
                         !.objs[o].st = "live"]
    /\ UNCHANGED options
    /\ UNCHANGED inodeFrame

\* a faulty variant: the lower inode is never put
EvictObject_NoIput(o) ==
    [inodes EXCEPT !.objs[o].lower_inode = NULL,
                   !.objs[o].st = "evicted",
                   !.objs[o].evict = <<"set_lower_inode:NULL">>]

\* lines 131-133 on object o: the object and the lower counts afterwards
EvictObject(o) ==
    LET obj == inodes.objs[o]
        lower_inode == obj.lower_inode
        mine == lower_inode # NULL /\ lower_inode = obj.held
        cleared == [obj EXCEPT !.lower_inode = NULL,
                               !.st = "evicted",
                               !.evict = <<"set_lower_inode:NULL", "iput">>,
                               !.puts = IF mine THEN @ + 1 ELSE @,
                               !.stray = IF lower_inode # NULL /\ ~mine
                                         THEN @ + 1 ELSE @]
    IN  IF lower_inode = NULL
        THEN [inodes EXCEPT !.objs[o] = cleared]
        ELSE [inodes EXCEPT !.objs[o] = cleared,
                            !.i_count[Deref(lower_inode)] = @ - 1]

\* lines 121-134: called once for an allocated inode whose count reached
\* zero, whether or not a lower inode was ever set
EvictInode ==
    /\ \E o \in Objects :
         /\ inodes.objs[o].st \in {"new", "live"}
         /\ inodes' = EvictObject(o)
    /\ UNCHANGED options
    /\ UNCHANGED inodeFrame

\* lines 151-154: kmem_cache_free; called after evict, or for an object
\* whose initialisation by the VFS failed right after alloc_inode.  The
\* freed memory keeps or loses its content.
DestroyInode ==
    /\ \E o \in Objects :
         /\ inodes.objs[o].st \in {"new", "evicted"}
         /\ \E stale \in {NULL} \cup {Ptr(l) : l \in LowerInodes} :
              inodes' = [inodes EXCEPT !.objs[o].st = "free",
                                      !.objs[o].lower_inode = stale]
    /\ UNCHANGED options
    /\ UNCHANGED inodeFrame

InodeNext == AllocInode \/ SetLowerInode \/ EvictInode \/ DestroyInode

\* The inode operations read nothing of the mount options, the calling task
\* or the super block: one initial state of each stands for all.
InodeInit ==
    /\ Init
    /\ options = [type |-> "TYPE_DEFAULT", label |-> "abc", reserved_mb |-> 0]
    /\ current.fsuid = 0
    /\ mnt.obbpath_s = NULL /\ mnt.pkgl_id = NULL /\ ~mnt.lower_umount_begin

InodeSpec == InodeInit /\ [][InodeNext]_vars

(***************************************************************************)
(* A propagation call racing with a writer of sbi->options.type.  No lock  *)
(* covers the options block and the call reads options.type anew in every  *)
(* comparison of lines 204-222 and 262-286, so a write may land between    *)
(* any two of its reads.                                                   *)
(***************************************************************************)
\* another thread stores a new type while a call is in flight
SetType ==
    /\ pc \notin {"idle", "done"}
    /\ \E t \in Types \ {options.type} :
         options' = [options EXCEPT !.type = t]
    /\ UNCHANGED propVars
    /\ UNCHANGED statVars
    /\ UNCHANGED otherVars

\* the two comparisons of one condition, each with its own read of type
TwoReads ==
    [default |-> [second |-> "TYPE_DEFAULT", prefix |-> "/mnt/runtime/default/",
                  next |-> "read"],
     read    |-> [second |-> "TYPE_READ", prefix |-> "/mnt/runtime/read/",
                  next |-> "write"],
     write   |-> [second |-> "TYPE_WRITE", prefix |-> "/mnt/runtime/write/",
                  next |-> "storage"]]

\* one condition of lines 204-220 / 262-285 with the store landing between
\* its first read (type != TYPE_NONE) and its second (type != TYPE_X)
TornCond ==
    /\ pc \in DOMAIN TwoReads
    /\ \E t \in Types \ {options.type} :
         /\ options' = [options EXCEPT !.type = t]
         /\ IF options.type # "TYPE_NONE" /\ t # TwoReads[pc].second
            THEN IF kind = "unlink"
                 THEN DoUnlink(TwoReads[pc].prefix)
                 ELSE DoRename(TwoReads[pc].prefix)
            ELSE UNCHANGED <<bufs, ops, ret>>
    /\ pc' = TwoReads[pc].next
    /\ UNCHANGED <<current, kind, names, saved_cred, old_fs, heap, res>>
    /\ UNCHANGED statVars
    /\ UNCHANGED otherVars

RaceNext == PropagateNext \/ SetType \/ TornCond

\* The race involves only the type, the label and the call: one value of
\* the reservation and of the super block stands for all.
RaceInit ==
    /\ Init
    /\ options.reserved_mb = 0
    /\ mnt.obbpath_s = NULL /\ mnt.pkgl_id = NULL /\ ~mnt.lower_umount_begin

RaceSpec == RaceInit /\ [][RaceNext]_vars

(***************************************************************************)
(* The whole file.  The propagation calls and statfs share only            *)
(* sbi->options, which neither writes.                                     *)
(***************************************************************************)
Next == PropagateNext \/ StatfsNext \/ LifeNext \/ RemountNext \/ InodeNext

Spec == Init /\ [][Next]_vars

(***************************************************************************)
(* The projection table of the specification (section 3), and what the     *)
(* claims say about a finished call.                                       *)
(***************************************************************************)
TableRows ==
    << [prefix |-> "/mnt/runtime/default/", skip |-> {"TYPE_NONE", "TYPE_DEFAULT"}],
       [prefix |-> "/mnt/runtime/read/",    skip |-> {"TYPE_NONE", "TYPE_READ"}],
       [prefix |-> "/mnt/runtime/write/",   skip |-> {"TYPE_NONE", "TYPE_WRITE"}],
       [prefix |-> "/storage/",             skip |-> {"TYPE_NONE"}] >>

RowActive(row) == options.type \notin row.skip
TableActive == SelectSeq(TableRows, RowActive)

\* prefix + label + relative path, for each of the given prefixes in order
PathsUnder(prefixes, name) ==
    [i \in 1..Len(prefixes) |-> prefixes[i] \o options.label \o name]
Prefixes(rows) == [i \in 1..Len(rows) |-> rows[i].prefix]

AttemptedPaths == [i \in 1..Len(ops) |-> ops[i].path]
AttemptedNewPaths == [i \in 1..Len(ops) |-> ops[i].newpath]

\* the call is a propagate_unlink / propagate_rename that has returned
Returned == pc = "done"
\* the identity substitution and every buffer allocation of the call succeeded
AllocsSucceeded ==
    \/ kind = "unlink" /\ "kmalloc:propagate_path" \in Range(res)
    \/ kind = "rename" /\ "kmalloc:propagete_new_path" \in Range(res)

\* the call attempted exactly the given prefixes, in this order
AttemptsExactly(prefixes) ==
    /\ kind = "unlink" =>
         /\ AttemptedPaths = PathsUnder(prefixes, names.pathname)
         /\ \A i \in 1..Len(ops) : ops[i].call = "do_unlinkat"
    /\ kind = "rename" =>
         /\ AttemptedPaths = PathsUnder(prefixes, names.oldname)
         /\ AttemptedNewPaths = PathsUnder(prefixes, names.newname)
         /\ \A i \in 1..Len(ops) : ops[i].call = "sys_renameat2"

(***************************************************************************)
(* C1 (as stated): every call of propagate_unlink / propagate_rename       *)
(* attempts exactly the projections the table activates for the mount's    *)
(* type, in the order default, read, write, storage.  Fails: a call whose  *)
(* identity substitution or buffer allocation fails returns -ENOMEM having *)
(* attempted nothing.                                                      *)
(***************************************************************************)
C1_EveryCallAttemptsTable == Returned => AttemptsExactly(Prefixes(TableActive))

(***************************************************************************)
(* C1 (amended): a call whose identity substitution and buffer allocations *)
(* succeed attempts exactly the projections the table activates for the    *)
(* mount's type, in the order default, read, write, storage; unlink and    *)
(* rename attempt the same set.  A call whose allocation fails attempts    *)
(* none.                                                                   *)
(***************************************************************************)
C1_AllocatedCallAttemptsTable ==
    Returned =>
        IF AllocsSucceeded
        THEN AttemptsExactly(Prefixes(TableActive))
        ELSE ops = <<>>

C1_Witness ==
    /\ Returned /\ kind = "rename" /\ options.type = "TYPE_FULL"
    /\ names.oldname = "a/old" /\ names.newname = "a/new"
    /\ Len(ops) = 4
    /\ ops[1].path = "/mnt/runtime/default/" \o options.label \o "a/old"
    /\ ops[4].newpath = "/storage/" \o options.label \o "a/new"

(***************************************************************************)
(* C2 (as stated): on a WRITE mount a propagation call attempts exactly    *)
(* the default and the storage projection.  Fails: the read projection is  *)
(* attempted too.                                                          *)
(***************************************************************************)
C2_WriteAttemptsTwo ==
    (Returned /\ AllocsSucceeded /\ options.type = "TYPE_WRITE") =>
        AttemptsExactly(<<"/mnt/runtime/default/", "/storage/">>)

(***************************************************************************)
(* C2 (amended): on a WRITE mount a propagation call whose allocations     *)
(* succeed attempts exactly three projections, default, read and storage;  *)
(* only the write projection is skipped.                                   *)
(***************************************************************************)
C2_WriteAttemptsThree ==
    (Returned /\ AllocsSucceeded /\ options.type = "TYPE_WRITE") =>
        AttemptsExactly(<<"/mnt/runtime/default/", "/mnt/runtime/read/",
                          "/storage/">>)

C2_Witness ==
    /\ Returned /\ AllocsSucceeded /\ options.type = "TYPE_WRITE"
    /\ kind = "unlink" /\ Len(ops) = 3
    /\ ops[2].path = "/mnt/runtime/read/" \o options.label \o names.pathname

(***************************************************************************)
(* C3 (as stated): on a DEFAULT mount with label "abc", propagate_unlink   *)
(* of "foo.txt" attempts a delete at /mnt/runtime/read/abc/foo.txt and     *)
(* /storage/abc/foo.txt and nowhere else.  Fails: the write projection is  *)
(* attempted too, and label and path are joined without a separator.       *)
(***************************************************************************)
C3Scenario ==
    /\ Returned /\ AllocsSucceeded /\ kind = "unlink"
    /\ options.type = "TYPE_DEFAULT" /\ options.label = "abc"
    /\ names.pathname = "foo.txt"

C3_DefaultScenarioTwoPaths ==
    C3Scenario =>
        AttemptedPaths = <<"/mnt/runtime/read/abc/foo.txt", "/storage/abc/foo.txt">>

(***************************************************************************)
(* C3 (amended): in that scenario, when the allocations succeed, the       *)
(* deletes are attempted at exactly /mnt/runtime/read/abcfoo.txt,          *)
(* /mnt/runtime/write/abcfoo.txt and /storage/abcfoo.txt (the path is      *)
(* appended to the label as given); in general a DEFAULT mount activates   *)
(* the read, write and storage projections and skips only default.         *)
(***************************************************************************)
C3_DefaultScenarioThreePaths ==
    /\ C3Scenario =>
         AttemptedPaths = <<"/mnt/runtime/read/abcfoo.txt",
                            "/mnt/runtime/write/abcfoo.txt",
                            "/storage/abcfoo.txt">>
    /\ (Returned /\ AllocsSucceeded /\ options.type = "TYPE_DEFAULT") =>
         AttemptsExactly(<<"/mnt/runtime/read/", "/mnt/runtime/write/",
                           "/storage/">>)

C3_Witness == C3Scenario /\ Len(ops) = 3

(***************************************************************************)
(* C4 (as stated): on a NONE mount every call of propagate_unlink and      *)
(* propagate_rename performs no physical operation and returns 0.  Fails:  *)
(* the allocations come before the type is looked at, and a failed one     *)
(* returns -ENOMEM.                                                        *)
(***************************************************************************)
C4_NoneReturnsSuccess ==
    (Returned /\ options.type = "TYPE_NONE") => (ops = <<>> /\ ret = 0)

(***************************************************************************)
(* C4 (amended): on a NONE mount every call performs no physical           *)
(* operation; it returns 0 when its identity substitution and buffer       *)
(* allocations succeed and -ENOMEM when one of them fails.                 *)
(***************************************************************************)
C4_NoneNoOps ==
    options.type = "TYPE_NONE" =>
        /\ ops = <<>>
        /\ Returned => ret = (IF AllocsSucceeded THEN 0 ELSE -ENOMEM)

C4_Witness ==
    /\ Returned /\ options.type = "TYPE_NONE" /\ kind = "rename"
    /\ AllocsSucceeded /\ ret = 0

(***************************************************************************)
(* Resources of one call: what acquires and what releases each.            *)
(***************************************************************************)
ResourcePairs ==
    { <<"override_fsids", "revert_fsids">>,
      <<"kmalloc:propagate_path", "kfree:propagate_path">>,
      <<"kmalloc:propagate_old_path", "kfree:propagate_old_path">>,
      <<"kmalloc:propagete_new_path", "kfree:propagete_new_path">> }

Count(seq, x) == Cardinality({i \in 1..Len(seq) : seq[i] = x})

(***************************************************************************)
(* C5: on every exit path of propagate_unlink and propagate_rename (the    *)
(* normal return and each out-of-memory return) every resource the call    *)
(* acquired has been released exactly once: the substituted identity is    *)
(* reverted and every allocated path buffer is freed; nothing is released  *)
(* before or without being acquired.                                       *)
(***************************************************************************)
C5_ResourcesReleasedOnce ==
    /\ \A pr \in ResourcePairs : \A k \in 0..Len(res) :
         /\ Count(SubSeq(res, 1, k), pr[1]) <= 1
         /\ Count(SubSeq(res, 1, k), pr[2]) <= Count(SubSeq(res, 1, k), pr[1])
    /\ Returned =>
         /\ \A pr \in ResourcePairs : Count(res, pr[2]) = Count(res, pr[1])
         /\ heap = {}
         /\ saved_cred # NULL =>
              /\ current.fsuid = Deref(saved_cred).fsuid
              /\ current.fsgid = Deref(saved_cred).fsgid

\* the second out-of-memory exit of propagate_rename, by a caller that is
\* not root: the identity was reverted and the first buffer freed
C5_Witness ==
    /\ Returned /\ kind = "rename" /\ ret = -ENOMEM
    /\ res = <<"override_fsids", "kmalloc:propagate_old_path", "revert_fsids",
               "kfree:propagate_old_path">>
    /\ current.fsuid = 1023

(***************************************************************************)
(* C6: when a propagation call attempts at least one projection, the       *)
(* status it returns is the status of the last projection attempted, which *)
(* is the /storage one, whatever the earlier statuses were.                *)
(***************************************************************************)
C6_LastStatusReturned ==
    (Returned /\ Len(ops) >= 1) =>
        /\ ret = ops[Len(ops)].status
        /\ ops[Len(ops)].path =
             "/storage/" \o options.label
                \o (IF kind = "unlink" THEN names.pathname ELSE names.oldname)

\* three failures, then a success on /storage: the call returns 0
C6_Witness ==
    /\ Returned /\ kind = "unlink" /\ Len(ops) = 4
    /\ ops[1].status = -13 /\ ops[2].status = -2 /\ ops[3].status = -2
    /\ ops[4].status = 0
    /\ ret = 0

(***************************************************************************)
(* C7: once the allocations have succeeded, every projection that is       *)
(* active for the mount's type is attempted, whether or not an earlier     *)
(* projection failed.                                                      *)
(***************************************************************************)
C7_BestEffort ==
    (Returned /\ AllocsSucceeded) =>
        \A i \in 1..Len(TableRows) :
            RowActive(TableRows[i]) =>
                \E j \in 1..Len(ops) :
                    ops[j].path =
                        TableRows[i].prefix \o options.label
                           \o (IF kind = "unlink" THEN names.pathname
                               ELSE names.oldname)

\* the first projection failed and the three after it were still attempted
C7_Witness ==
    /\ Returned /\ AllocsSucceeded /\ kind = "unlink"
    /\ options.type = "TYPE_FULL"
    /\ Len(ops) = 4
    /\ ops[1].status # 0
    /\ ops[4].path = "/storage/" \o options.label \o names.pathname

(***************************************************************************)
(* What the claims say about a statfs call that has returned.              *)
(***************************************************************************)
StatfsReturned == statfs_pc = "returned"

\* reservation_mb * 1MiB / block_size, in the integers
ReservedBlocks(reservation_mb, block_size) == ShlDiv(reservation_mb, block_size, 20)

Max0(x) == IF x > 0 THEN x ELSE 0

(***************************************************************************)
(* C8: with reservation_mb = R > 0 and a backing block size B > 0,         *)
(* adjusted_statfs reports available' = max(0, available - R*1MiB/B) and   *)
(* free' = available', for every R an unsigned 32-bit option can hold.     *)
(* Fails on the code for R >= 4096: R * 1024 * 1024 wraps modulo 2^32.     *)
(***************************************************************************)
C8_AvailableMinusReservation ==
    (StatfsReturned /\ lower.err = 0
       /\ options.reserved_mb > 0 /\ lower.buf.f_bsize > 0) =>
        /\ buf.f_bavail =
             Max0(lower.buf.f_bavail
                    - ReservedBlocks(options.reserved_mb, lower.buf.f_bsize))
        /\ buf.f_bfree = buf.f_bavail

(***************************************************************************)
(* C9: with reservation_mb = 0, adjusted_statfs returns the backing        *)
(* statistics (total, free, available, block size) and the backing status  *)
(* unchanged; only the type tag changes, to the overlay's magic value.     *)
(***************************************************************************)
C9_PassThrough ==
    (StatfsReturned /\ options.reserved_mb = 0) =>
        /\ buf = [lower.buf EXCEPT !.f_type = "SDCARDFS_SUPER_MAGIC"]
        /\ statfs_ret = lower.err

C9_Witness ==
    /\ StatfsReturned /\ options.reserved_mb = 0
    /\ lower.err = 0
    /\ lower.buf.f_type = "EXT4_SUPER_MAGIC"
    /\ lower.buf.f_bsize = 4096
    /\ lower.buf.f_bavail = 1000000
    /\ lower.buf.f_bfree = MaxBlocks
    /\ buf.f_bfree = MaxBlocks

(***************************************************************************)
(* C10: with reservation_mb > 0 and a backing block size of 0,             *)
(* adjusted_statfs fails with -EINVAL and leaves the block counts as the   *)
(* backing file system reported them.                                      *)
(***************************************************************************)
C10_ZeroBlockSizeInvalid ==
    (StatfsReturned /\ options.reserved_mb > 0 /\ lower.buf.f_bsize = 0) =>
        /\ statfs_ret = -EINVAL
        /\ buf.f_blocks = lower.buf.f_blocks
        /\ buf.f_bfree = lower.buf.f_bfree
        /\ buf.f_bavail = lower.buf.f_bavail

C10_Witness ==
    /\ StatfsReturned /\ options.reserved_mb = 100
    /\ lower.err = 0
    /\ lower.buf.f_bsize = 0
    /\ lower.buf.f_bavail = 1000000
    /\ lower.buf.f_bfree = MaxBlocks
    /\ statfs_ret = -EINVAL

(***************************************************************************)
(* What the claims say about the unmount path.                             *)
(***************************************************************************)
\* how many times the calls made so far did e
DidCount(e) ==
    Cardinality({ij \in (1..Len(mnt.calls)) \X (1..7) :
                    /\ ij[2] <= Len(mnt.calls[ij[1]].did)
                    /\ mnt.calls[ij[1]].did[ij[2]] = e})

(***************************************************************************)
(* C12: over any sequence of finalize_teardown (put_super) calls on one    *)
(* mount, the backing super block's active count is decremented exactly    *)
(* once, by the first call; the mount state is freed once; after a call    *)
(* returns s_fs_info is NULL and every later call does nothing.            *)
(***************************************************************************)
C12_TeardownOnce ==
    LET puts == CallsOf("put_super")
    IN  /\ DidCount("atomic_dec:s_active") <= 1
        /\ DidCount("kfree:spd") <= 1
        /\ mnt.s_active = mnt.s_active_mounted - DidCount("atomic_dec:s_active")
        /\ Len(puts) >= 1 =>
             /\ mnt.s_fs_info = NULL
             /\ DidCount("atomic_dec:s_active") = 1
             /\ DidCount("kfree:spd") = 1
             /\ "atomic_dec:s_active" \in Range(puts[1].did)
             /\ \A i \in 2..Len(puts) : puts[i].did = <<>>

\* a second put_super has run and found nothing to do
C12_Witness ==
    /\ Len(CallsOf("put_super")) = 2
    /\ CallsOf("put_super")[2].did = <<>>
    /\ mnt.s_active = mnt.s_active_mounted - 1
    /\ mnt.s_fs_info = NULL

(***************************************************************************)
(* C14: in begin_forced_unmount (umount_begin) the interrupt is forwarded  *)
(* to the backing file system, when it has the hook, before the package    *)
(* list handle is destroyed; the handle is destroyed only if present, and  *)
(* the interrupt is forwarded whether or not a handle is present.          *)
(***************************************************************************)
C14_ForwardThenDestroy ==
    \A i \in 1..Len(mnt.calls) :
        mnt.calls[i].call = "umount_begin" =>
            mnt.calls[i].did =
                (IF mnt.lower_umount_begin
                 THEN <<"lower_sb:umount_begin">> ELSE <<>>)
                \o (IF mnt.pkgl_id # NULL
                    THEN <<"packagelist_destroy">> ELSE <<>>)

C14_Witness ==
    /\ mnt.lower_umount_begin /\ mnt.pkgl_id # NULL
    /\ Len(mnt.calls) = 1
    /\ mnt.calls[1] = [call |-> "umount_begin",
                       did |-> <<"lower_sb:umount_begin", "packagelist_destroy">>]

(***************************************************************************)
(* C15: for a mount that has a package list handle, once the mount is torn *)
(* down (put_super has cleared s_fs_info) the handle has been destroyed    *)
(* exactly once, however many umount_begin calls came before.  Fails on    *)
(* the code: put_super never destroys it, and every umount_begin does.     *)
(***************************************************************************)
C15_RegistryDestroyedOnce ==
    (mnt.pkgl_id # NULL /\ mnt.s_fs_info = NULL) =>
        DidCount("packagelist_destroy") = 1

(***************************************************************************)
(* C13: remount with any flag outside {read-only, mandatory-lock, silent}  *)
(* returns -EINVAL, remount with only those flags returns 0, and in both   *)
(* cases the mount options are left as they were.                          *)
(***************************************************************************)
Whitelist == {"MS_RDONLY", "MS_MANDLOCK", "MS_SILENT"}

C13_RemountWhitelist ==
    [][(remount.pc = "idle" /\ remount'.pc = "returned") =>
          /\ remount'.err = (IF remount'.flags \subseteq Whitelist
                             THEN 0 ELSE -EINVAL)
          /\ options' = options]_vars

\* a remount with a flag outside the whitelist and an options string that
\* asks for another reservation was rejected
C13_Witness ==
    /\ remount.pc = "returned"
    /\ remount.flags = {"MS_RDONLY", "MS_NOSUID"}
    /\ remount.data = "reserved_mb=50"
    /\ remount.err = -EINVAL
    /\ options.reserved_mb = 100

(***************************************************************************)
(* C11: every stacked inode object that was bound to a backing inode       *)
(* releases that reference exactly once, by one iput after the stored      *)
(* pointer is cleared, over any sequence of allocate, bind, evict and      *)
(* destroy, allocation failures included; the reference is not held once   *)
(* the object is evicted or back in the pool, and nothing else is put.     *)
(***************************************************************************)
C11_BackingReferenceReleasedOnce ==
    /\ \A o \in Objects :
         LET obj == inodes.objs[o]
         IN  /\ obj.puts <= 1
             /\ obj.stray = 0
             /\ obj.st = "live" =>
                  (obj.held # NULL /\ obj.lower_inode = obj.held /\ obj.puts = 0)
             /\ (obj.st \in {"evicted", "free"} /\ obj.held # NULL) =>
                  /\ obj.puts = 1
                  /\ obj.evict = <<"set_lower_inode:NULL", "iput">>
             /\ obj.st = "evicted" => obj.lower_inode = NULL
    /\ \A l \in LowerInodes :
         inodes.i_count[l] =
             1 + Cardinality({o \in Objects :
                                /\ inodes.objs[o].st = "live"
                                /\ inodes.objs[o].held = Ptr(l)})

\* object 1 was bound to l1, evicted and destroyed with stale memory left
\* behind; object 2 is live on l1; the last allocation failed
C11_Witness ==
    /\ inodes.objs[1].st = "free"
    /\ inodes.objs[1].held = Ptr("l1")
    /\ inodes.objs[1].puts = 1
    /\ inodes.objs[1].lower_inode = Ptr("l1")
    /\ inodes.objs[2].st = "live"
    /\ inodes.objs[2].held = Ptr("l1")
    /\ inodes.i_count["l1"] = 2
    /\ inodes.last_alloc = NULL

(***************************************************************************)
(* The host's delete and rename primitives run the propagation hooks of    *)
(* the projection they act on unless told not to: do_unlinkat by its last  *)
(* argument false, sys_renameat2 by RENAME_NOPROPAGATE.                    *)
(***************************************************************************)
Retriggers(op) ==
    \/ op.call = "do_unlinkat" /\ op.flags # "false"
    \/ op.call = "sys_renameat2" /\ op.flags # "RENAME_NOPROPAGATE"

\* the propagation calls one primary operation has caused so far: the call
\* itself and one more for each projected operation that retriggers
PropagationCalls == 1 + Cardinality({i \in 1..Len(ops) : Retriggers(ops[i])})

(***************************************************************************)
(* C16: every rename propagate_rename issues carries RENAME_NOPROPAGATE    *)
(* and every delete propagate_unlink issues has propagation disabled, so   *)
(* no projected operation re-enters the engine: one primary operation      *)
(* causes one propagation call and at most four projected operations.      *)
(***************************************************************************)
C16_NoReentry ==
    /\ \A i \in 1..Len(ops) :
         /\ ops[i].call = "sys_renameat2" => ops[i].flags = "RENAME_NOPROPAGATE"
         /\ ops[i].call = "do_unlinkat" => ops[i].flags = "false"
    /\ PropagationCalls = 1
    /\ Len(ops) <= 4

C16_Witness ==
    /\ Returned /\ kind = "rename" /\ Len(ops) = 4
    /\ \A i \in 1..4 : ops[i].flags = "RENAME_NOPROPAGATE"

(***************************************************************************)
(* C17: within one propagation call every projected operation is issued    *)
(* while the substituted identity (fsuid 0, fsgid 0) is acting: after      *)
(* override_fsids and before revert_fsids; and when the call returns the   *)
(* acting identity is the one it was entered with.                         *)
(***************************************************************************)
C17_SubstitutedIdentity ==
    [][/\ (ops' # ops /\ ops' # <<>>) =>
            /\ "override_fsids" \in Range(res)
            /\ "revert_fsids" \notin Range(res)
            /\ current.fsuid = 0 /\ current.fsgid = 0
            /\ ops'[Len(ops')].fsuid = 0 /\ ops'[Len(ops')].fsgid = 0
       /\ pc' = "done" =>
            IF saved_cred' # NULL
            THEN /\ current'.fsuid = Deref(saved_cred').fsuid
                 /\ current'.fsgid = Deref(saved_cred').fsgid
            ELSE /\ current'.fsuid = current.fsuid
                 /\ current'.fsgid = current.fsgid]_vars

\* a caller that is not root: four renames as root, then its own identity
C17_Witness ==
    /\ Returned /\ kind = "rename" /\ Len(ops) = 4
    /\ \A i \in 1..4 : ops[i].fsuid = 0 /\ ops[i].fsgid = 0
    /\ current.fsuid = 1023 /\ current.fsgid = 1023
    /\ Deref(saved_cred).fsuid = 1023

(***************************************************************************)
(* C18: a propagation call that runs while the mount's type is changed     *)
(* attempts the projections of the table row of one single type value.     *)
(***************************************************************************)
RowOf(t) == SelectSeq(TableRows, LAMBDA row : t \notin row.skip)

C18_OneConsistentType ==
    (Returned /\ AllocsSucceeded) =>
        \E t \in Types : AttemptsExactly(Prefixes(RowOf(t)))

(***************************************************************************)
(* C19: when vfs_statfs fails, sdcardfs_statfs returns its error, whatever *)
(* reserved_mb and the statistics buffer hold.                             *)
(***************************************************************************)
C19_QueryErrorVerbatim ==
    (StatfsReturned /\ lower.err # 0) => statfs_ret = lower.err

====
